---- MODULE Spec2Model ----
(***************************************************************************)
(* Model of webcam_osc/visualizer.py: class DataVisualizer.                *)
(*                                                                         *)
(* The object's attributes are the fields of the record `self`.  Optional  *)
(* attributes (camera_y_offset, grid_y_offset, mouse_x, mouse_y), which    *)
(* exist on the Python object only once they have been assigned, are       *)
(* sequences of length 0 (attribute absent) or 1 (attribute holds a value).*)
(* Bounds tuples are <<x1, y1, x2, y2>> as in the source.                  *)
(*                                                                         *)
(* The display surface (cv2.imshow / cv2.getWindowProperty) and the camera *)
(* frame are inputs: each call draws them from the small sets below.       *)
(***************************************************************************)
EXTENDS Integers, Sequences, FiniteSets, TLC

\* ---- bounds of the model ------------------------------------------------
MaxRows == 3
MaxCols == 3

\* Rows / cols values of a malformed GridConfig (rows <= 0 or cols <= 0).
MalformedDims == {-1, 0}

\* ---- constants of __init__ and _calculate_responsive_sizes ---------------
max_height == 900
max_width == 1600
padding == 10
text_padding == 5
button_height == 35
button_width == 140
button_spacing == 10
desired_cell_size == 150
desired_camera_width == 640
desired_camera_height == 480
fallback_content_width == 400

\* ---- inputs ---------------------------------------------------------------
\* camera_frame argument of render / show: None, an array with zero pixels,
\* or an array with pixels.
Frames == {"none", "empty", "valid"}
\* What the display surface does when a canvas is presented: imshow succeeds
\* and the window is visible; imshow succeeds and WND_PROP_VISIBLE < 1;
\* imshow (or getWindowProperty) raises cv2.error.
Surfaces == {"ok", "invisible", "error"}

VARIABLES
    grid_config,   \* the GridConfig handed to the constructor
    show_camera,   \* the show_camera argument handed to the constructor
    constructed,   \* TRUE once __init__ has returned an object
    self,          \* the attributes of the DataVisualizer object
    call,          \* the most recent call on the object and how it ended
    trail,         \* the visibility toggles performed back to back, at most 2
    before         \* Layout(self) before the first toggle recorded in trail

vars == <<grid_config, show_camera, constructed, self, call, trail, before>>

\* ---- helpers --------------------------------------------------------------
RECURSIVE MaxOf(_)
\* Python's max() over a non-empty list.
MaxOf(seq) ==
    IF Len(seq) = 1 THEN seq[1]
    ELSE LET m == MaxOf(Tail(seq)) IN IF seq[1] >= m THEN seq[1] ELSE m

\* int(desired * scale_factor), scale_factor = max_height / total when
\* total > max_height and 1.0 otherwise.  For the totals 565 + 160*rows the
\* exact quotient desired*900/total is never an integer, so the truncated
\* float product equals the integer floor quotient.
ScaledSize(desired, total_desired_height) ==
    IF total_desired_height > max_height
    THEN (desired * max_height) \div total_desired_height
    ELSE desired

\* The object before __init__ has assigned anything.
BlankSelf ==
    [ should_close |-> FALSE,
      show_camera_runtime |-> FALSE,
      show_grid_runtime |-> FALSE,
      cell_size |-> 0, camera_width |-> 0, camera_height |-> 0,
      grid_width |-> 0, grid_height |-> 0,
      button_bar_y |-> 0,
      camera_y_offset |-> <<>>,
      grid_y_offset |-> <<>>,
      height |-> 0, width |-> 0,
      close_button_bounds |-> <<0, 0, 0, 0>>,
      toggle_camera_button_bounds |-> <<0, 0, 0, 0>>,
      toggle_grid_button_bounds |-> <<0, 0, 0, 0>>,
      mouse_x |-> <<>>, mouse_y |-> <<>> ]

\* The LayoutGeometry snapshot of the object.
Layout(s) ==
    [ width |-> s.width, height |-> s.height,
      button_bar_y |-> s.button_bar_y,
      camera_y_offset |-> s.camera_y_offset,
      grid_y_offset |-> s.grid_y_offset,
      close_button_bounds |-> s.close_button_bounds,
      toggle_camera_button_bounds |-> s.toggle_camera_button_bounds,
      toggle_grid_button_bounds |-> s.toggle_grid_button_bounds ]

BlankLayout == Layout(BlankSelf)

\* ---- DataVisualizer._calculate_responsive_sizes ----------------------------
calculate_responsive_sizes(s, cfg) ==
    LET desired_grid_height ==
            (desired_cell_size * cfg.rows) + (padding * (cfg.rows + 1))
        total_desired_height ==
            padding + desired_camera_height + padding + desired_grid_height
            + padding + button_height + padding
        cell == ScaledSize(desired_cell_size, total_desired_height)
    IN [s EXCEPT
          !.cell_size = cell,
          !.camera_width = ScaledSize(desired_camera_width, total_desired_height),
          !.camera_height = ScaledSize(desired_camera_height, total_desired_height),
          !.grid_width = (cell * cfg.cols) + (padding * (cfg.cols + 1)),
          !.grid_height = (cell * cfg.rows) + (padding * (cfg.rows + 1))]

\* ---- DataVisualizer._recalculate_layout ------------------------------------
\* A variant that never lets the canvas become narrower than it was.
recalculate_layout_keep_width(s) ==
    LET show_cam == s.show_camera_runtime
        show_grid == s.show_grid_runtime
        h1 == padding + button_height + padding
        h2 == IF show_cam THEN h1 + s.camera_height + padding ELSE h1
        h3 == IF show_grid THEN h2 + s.grid_height + padding ELSE h2
        widths == (IF show_cam THEN <<s.camera_width>> ELSE <<>>)
                  \o (IF show_grid THEN <<s.grid_width>> ELSE <<>>)
                  \o <<s.width - (2 * padding)>>
        width == MaxOf(widths) + (2 * padding)
        button_start_x == (width - ((button_width * 3) + (button_spacing * 2))) \div 2
    IN [s EXCEPT
          !.button_bar_y = padding,
          !.camera_y_offset = IF show_cam THEN <<h1>> ELSE @,
          !.grid_y_offset = IF show_grid THEN <<h2>> ELSE @,
          !.height = h3,
          !.width = width,
          !.close_button_bounds =
              << button_start_x, padding,
                 button_start_x + button_width, padding + button_height >>,
          !.toggle_camera_button_bounds =
              << button_start_x + button_width + button_spacing, padding,
                 button_start_x + (2 * button_width) + button_spacing,
                 padding + button_height >>,
          !.toggle_grid_button_bounds =
              << button_start_x + (2 * button_width) + (2 * button_spacing), padding,
                 button_start_x + (3 * button_width) + (2 * button_spacing),
                 padding + button_height >>]

\* A variant that forgets the spacing before the ToggleCamera button.
recalculate_layout_no_spacing(s) ==
    LET show_cam == s.show_camera_runtime
        show_grid == s.show_grid_runtime
        h1 == padding + button_height + padding
        h2 == IF show_cam THEN h1 + s.camera_height + padding ELSE h1
        h3 == IF show_grid THEN h2 + s.grid_height + padding ELSE h2
        widths == (IF show_cam THEN <<s.camera_width>> ELSE <<>>)
                  \o (IF show_grid THEN <<s.grid_width>> ELSE <<>>)
        content_width == IF widths # <<>> THEN MaxOf(widths) ELSE fallback_content_width
        width == content_width + (2 * padding)
        button_start_x == (width - ((button_width * 3) + (button_spacing * 2))) \div 2
    IN [s EXCEPT
          !.button_bar_y = padding,
          !.camera_y_offset = IF show_cam THEN <<h1>> ELSE @,
          !.grid_y_offset = IF show_grid THEN <<h2>> ELSE @,
          !.height = h3,
          !.width = width,
          !.close_button_bounds =
              << button_start_x, padding,
                 button_start_x + button_width, padding + button_height >>,
          !.toggle_camera_button_bounds =
              << button_start_x + button_width, padding,
                 button_start_x + (2 * button_width) + button_spacing,
                 padding + button_height >>,
          !.toggle_grid_button_bounds =
              << button_start_x + (2 * button_width) + (2 * button_spacing), padding,
                 button_start_x + (3 * button_width) + (2 * button_spacing),
                 padding + button_height >>]

recalculate_layout(s) ==
    LET show_cam == s.show_camera_runtime
        show_grid == s.show_grid_runtime
        height0 == padding
        button_bar_y == height0
        height1 == height0 + button_height + padding
        \* camera_y_offset / grid_y_offset are assigned only inside the ifs:
        \* when the block is hidden the attribute keeps whatever it had.
        height2 == IF show_cam THEN height1 + s.camera_height + padding ELSE height1
        height3 == IF show_grid THEN height2 + s.grid_height + padding ELSE height2
        widths == (IF show_cam THEN <<s.camera_width>> ELSE <<>>)
                  \o (IF show_grid THEN <<s.grid_width>> ELSE <<>>)
        content_width == IF widths # <<>> THEN MaxOf(widths) ELSE fallback_content_width
        width == content_width + (2 * padding)
        total_button_width == (button_width * 3) + (button_spacing * 2)
        button_start_x == (width - total_button_width) \div 2
    IN [s EXCEPT
          !.button_bar_y = button_bar_y,
          !.camera_y_offset = IF show_cam THEN <<height1>> ELSE @,
          !.grid_y_offset = IF show_grid THEN <<height2>> ELSE @,
          !.height = height3,
          !.width = width,
          !.close_button_bounds =
              << button_start_x,
                 button_bar_y,
                 button_start_x + button_width,
                 button_bar_y + button_height >>,
          !.toggle_camera_button_bounds =
              << button_start_x + button_width + button_spacing,
                 button_bar_y,
                 button_start_x + (2 * button_width) + button_spacing,
                 button_bar_y + button_height >>,
          !.toggle_grid_button_bounds =
              << button_start_x + (2 * button_width) + (2 * button_spacing),
                 button_bar_y,
                 button_start_x + (3 * button_width) + (2 * button_spacing),
                 button_bar_y + button_height >>]

\* ---- DataVisualizer.__init__ (attribute assignments) -----------------------
init_object(cfg, show_cam) ==
    recalculate_layout(
        calculate_responsive_sizes(
            [BlankSelf EXCEPT !.should_close = FALSE,
                              !.show_camera_runtime = show_cam,
                              !.show_grid_runtime = TRUE],
            cfg))

\* ---- DataVisualizer._is_point_in_bounds ------------------------------------
\* A variant with exclusive edges.
is_point_in_bounds_strict(x, y, bounds) ==
    bounds[1] < x /\ x < bounds[3] /\ bounds[2] < y /\ y < bounds[4]

is_point_in_bounds(x, y, bounds) ==
    LET x1 == bounds[1]
        y1 == bounds[2]
        x2 == bounds[3]
        y2 == bounds[4]
    IN x1 <= x /\ x <= x2 /\ y1 <= y /\ y <= y2

\* ---- DataVisualizer._mouse_callback ----------------------------------------
\* A variant that flips the flags without recomputing the layout.
mouse_callback_no_relayout(s, event, x, y) ==
    IF event = "EVENT_MOUSEMOVE"
    THEN [s EXCEPT !.mouse_x = <<x>>, !.mouse_y = <<y>>]
    ELSE IF event = "EVENT_LBUTTONDOWN"
    THEN IF is_point_in_bounds(x, y, s.close_button_bounds)
         THEN [s EXCEPT !.should_close = TRUE]
         ELSE IF is_point_in_bounds(x, y, s.toggle_camera_button_bounds)
         THEN [s EXCEPT !.show_camera_runtime = ~ @]
         ELSE IF is_point_in_bounds(x, y, s.toggle_grid_button_bounds)
         THEN [s EXCEPT !.show_grid_runtime = ~ @]
         ELSE s
    ELSE s

mouse_callback(s, event, x, y) ==
    IF event = "EVENT_MOUSEMOVE"
    THEN [s EXCEPT !.mouse_x = <<x>>, !.mouse_y = <<y>>]
    ELSE IF event = "EVENT_LBUTTONDOWN"
    THEN IF is_point_in_bounds(x, y, s.close_button_bounds)
         THEN [s EXCEPT !.should_close = TRUE]
         ELSE IF is_point_in_bounds(x, y, s.toggle_camera_button_bounds)
         THEN recalculate_layout([s EXCEPT !.show_camera_runtime = ~ @])
         ELSE IF is_point_in_bounds(x, y, s.toggle_grid_button_bounds)
         THEN recalculate_layout([s EXCEPT !.show_grid_runtime = ~ @])
         ELSE s
    ELSE s

\* ---- DataVisualizer.render -------------------------------------------------
\* The result of render: <<>> when an exception leaves render, else the
\* canvas as <<[w, h, camera]>> with camera = "frame" when the resized frame
\* was copied into the camera region and "background" when it was not.
\* np.zeros raises for a negative dimension; cv2.resize raises cv2.error for
\* a source with zero pixels or a target size that is not positive.
render(s, camera_frame) ==
    IF s.height < 0 \/ s.width < 0
    THEN <<>>
    ELSE IF s.show_camera_runtime /\ camera_frame # "none"
    THEN IF camera_frame = "empty" \/ s.camera_width <= 0 \/ s.camera_height <= 0
         THEN <<>>
         ELSE << [w |-> s.width, h |-> s.height, camera |-> "frame"] >>
    ELSE << [w |-> s.width, h |-> s.height, camera |-> "background"] >>

NoCall ==
    [op |-> "none", frame |-> "none", surface |-> "na", result |-> "returned",
     canvas |-> <<>>]

\* ---- pointer positions delivered by the window -----------------------------
AllBounds(s) ==
    {s.close_button_bounds, s.toggle_camera_button_bounds, s.toggle_grid_button_bounds}

\* Pixels of the canvas at the corners of each button and one pixel outside
\* each of its four edges.
DownPoints(s) ==
    {p \in UNION {{ <<b[1], b[2]>>, <<b[3], b[4]>>, <<b[1], b[4]>>,
                    <<b[1] - 1, b[2]>>, <<b[3] + 1, b[4]>>,
                    <<b[1], b[2] - 1>>, <<b[3], b[4] + 1>> } : b \in AllBounds(s)}
        : 0 <= p[1] /\ p[1] < s.width /\ 0 <= p[2] /\ p[2] < s.height}

\* Pointer positions reported while moving: the canvas corner and a pixel of
\* the button bar.
MovePoints(s) ==
    {p \in {<<0, 0>>, <<100, 30>>} : p[1] < s.width /\ p[2] < s.height}

\* ---- actions ---------------------------------------------------------------
\* DataVisualizer(grid_config, show_camera)
Construct ==
    /\ ~ constructed
    /\ constructed' = TRUE
    /\ self' = init_object(grid_config, show_camera)
    /\ call' = [NoCall EXCEPT !.op = "construct"]
    /\ trail' = <<>>
    /\ before' = BlankLayout
    /\ UNCHANGED <<grid_config, show_camera>>

\* _mouse_callback(EVENT_MOUSEMOVE, x, y)
PointerMove(x, y) ==
    /\ constructed
    /\ self' = mouse_callback(self, "EVENT_MOUSEMOVE", x, y)
    /\ call' = [NoCall EXCEPT !.op = "pointerMove"]
    /\ trail' = <<>>
    /\ before' = BlankLayout
    /\ UNCHANGED <<grid_config, show_camera, constructed>>

\* _mouse_callback(EVENT_LBUTTONDOWN, x, y)
PointerDown(x, y) ==
    /\ constructed
    /\ LET next == mouse_callback(self, "EVENT_LBUTTONDOWN", x, y)
           kind == IF next.show_camera_runtime # self.show_camera_runtime THEN "camera"
                   ELSE IF next.show_grid_runtime # self.show_grid_runtime THEN "grid"
                   ELSE "none"
       IN /\ self' = next
          /\ IF kind = "none"
             THEN trail' = <<>> /\ before' = BlankLayout
             ELSE IF trail = <<kind>>
             THEN trail' = <<kind, kind>> /\ before' = before
             ELSE trail' = <<kind>> /\ before' = Layout(self)
    /\ call' = [NoCall EXCEPT !.op = "pointerDown"]
    /\ UNCHANGED <<grid_config, show_camera, constructed>>

\* render(cells_data, camera_frame)
Render(camera_frame) ==
    /\ constructed
    /\ LET canvas == render(self, camera_frame)
       IN call' = [NoCall EXCEPT !.op = "render", !.frame = camera_frame,
                                 !.canvas = canvas,
                                 !.result = IF canvas = <<>> THEN "raised" ELSE "returned"]
    /\ trail' = <<>>
    /\ before' = BlankLayout
    /\ UNCHANGED <<grid_config, show_camera, constructed, self>>

\* A variant of show that ignores the visibility of the window.
ShowIgnoringVisibility(camera_frame, surface) ==
    /\ constructed
    /\ LET canvas == render(self, camera_frame)
       IN IF canvas = <<>>
          THEN /\ self' = self
               /\ call' = [NoCall EXCEPT !.op = "show", !.frame = camera_frame,
                                         !.result = "raised"]
          ELSE /\ self' = IF surface = "error"
                          THEN [self EXCEPT !.should_close = TRUE]
                          ELSE self
               /\ call' = [NoCall EXCEPT !.op = "show", !.frame = camera_frame,
                                         !.surface = surface, !.canvas = canvas]
    /\ trail' = <<>>
    /\ before' = BlankLayout
    /\ UNCHANGED <<grid_config, show_camera, constructed>>

\* show(cells_data, camera_frame): render runs outside the try block, so an
\* exception of render leaves show before anything is presented.
Show(camera_frame, surface) ==
    /\ constructed
    /\ LET canvas == render(self, camera_frame)
       IN IF canvas = <<>>
          THEN /\ self' = self
               /\ call' = [NoCall EXCEPT !.op = "show", !.frame = camera_frame,
                                         !.result = "raised"]
          ELSE /\ self' = IF surface = "invisible"
                          THEN [self EXCEPT !.should_close = TRUE]
                          ELSE IF surface = "error"
                          THEN [self EXCEPT !.should_close = TRUE]
                          ELSE self
               /\ call' = [NoCall EXCEPT !.op = "show", !.frame = camera_frame,
                                         !.surface = surface, !.canvas = canvas]
    /\ trail' = <<>>
    /\ before' = BlankLayout
    /\ UNCHANGED <<grid_config, show_camera, constructed>>

\* show_loading_screen(message): `except cv2.error: pass`, and the window's
\* visibility is not queried.
ShowLoadingScreen(surface) ==
    /\ constructed
    /\ self' = self
    /\ call' = [NoCall EXCEPT !.op = "show_loading_screen", !.surface = surface]
    /\ trail' = <<>>
    /\ before' = BlankLayout
    /\ UNCHANGED <<grid_config, show_camera, constructed>>

\* ---- specifications --------------------------------------------------------
InitWith(Rows, Cols) ==
    /\ grid_config \in [rows : Rows, cols : Cols]
    /\ show_camera \in BOOLEAN
    /\ constructed = FALSE
    /\ self = BlankSelf
    /\ call = NoCall
    /\ trail = <<>>
    /\ before = BlankLayout

\* Callers that respect the GridConfig contract rows > 0, cols > 0.
Init == InitWith(1..MaxRows, 1..MaxCols)

\* Callers that may also hand over a malformed GridConfig.
InitMalformed ==
    /\ InitWith(MalformedDims \cup (1..MaxRows), MalformedDims \cup (1..MaxCols))
    /\ (grid_config.rows <= 0 \/ grid_config.cols <= 0)

Next ==
    \/ Construct
    \/ \E p \in MovePoints(self) : PointerMove(p[1], p[2])
    \/ \E p \in DownPoints(self) : PointerDown(p[1], p[2])
    \/ \E f \in Frames : Render(f)
    \/ \E f \in Frames, u \in Surfaces : Show(f, u)
    \/ \E u \in Surfaces : ShowLoadingScreen(u)

Spec == Init /\ [][Next]_vars

SpecMalformed == InitMalformed /\ [][Next]_vars

\* ---- vocabulary of the properties ------------------------------------------
\* The geometry with the offset of every hidden block blanked out: what the
\* next render can read.
VisibleLayout(layout, show_cam, show_grid) ==
    [layout EXCEPT !.camera_y_offset = IF show_cam THEN @ ELSE <<>>,
                   !.grid_y_offset = IF show_grid THEN @ ELSE <<>>]

\* The geometry an object has when its layout is computed for the first time
\* with the given flags.
FreshLayout(cfg, show_cam, show_grid) ==
    Layout(recalculate_layout(
        calculate_responsive_sizes(
            [BlankSelf EXCEPT !.show_camera_runtime = show_cam,
                              !.show_grid_runtime = show_grid],
            cfg)))

Contains(b, x, y) == b[1] <= x /\ x <= b[3] /\ b[2] <= y /\ y <= b[4]

SameFlags == /\ self'.show_camera_runtime = self.show_camera_runtime
             /\ self'.show_grid_runtime = self.show_grid_runtime

\* ---- C1 --------------------------------------------------------------------
\* C1: once should_close is true, every later pointerMove or pointerDown
\* leaves should_close true and leaves show_camera_runtime and
\* show_grid_runtime unchanged.
C1_ClosingAbsorbsPointerEvents ==
    [][(self.should_close /\ call'.op \in {"pointerMove", "pointerDown"})
          => (self'.should_close /\ SameFlags)]_vars

C4_ButtonRow ==
    constructed =>
        LET c == self.close_button_bounds
            t == self.toggle_camera_button_bounds
            g == self.toggle_grid_button_bounds
            left == c[1]
            right == self.width - g[3]
        IN /\ c[3] - c[1] = t[3] - t[1] /\ t[3] - t[1] = g[3] - g[1]
           /\ c[3] < t[1] /\ t[3] < g[1]
           /\ c[2] = t[2] /\ t[2] = g[2]
           /\ c[4] = t[4] /\ t[4] = g[4]
           /\ \A x \in {c[1], c[3], t[1], t[3], g[1], g[3]}, y \in {c[2], c[4]} :
                 Cardinality({b \in {c, t, g} : Contains(b, x, y)}) <= 1
           /\ right - left \in {-1, 0, 1}

\* A layout with both blocks hidden (content width 400) and one whose margins
\* differ by exactly one pixel are both covered; this is the latter.
C4_Witness ==
    /\ constructed
    /\ (self.width - self.toggle_grid_button_bounds[3]) - self.close_button_bounds[1] = 1

\* ---- C5 --------------------------------------------------------------------
\* C5 as stated: whenever show or show_loading_screen presents a canvas and
\* the presentation fails or the window is not visible, the call returns
\* normally with should_close true.
C5_PresentFailureCloses ==
    (call.op \in {"show", "show_loading_screen"} /\ call.surface \in {"invisible", "error"})
        => (self.should_close /\ call.result = "returned")

\* C5 amended: when show presents a canvas and the presentation fails or the
\* window is not visible, show returns normally with should_close true;
\* show_loading_screen also returns normally whatever the surface does, but
\* it leaves should_close (and every other attribute) as it was.
C5_ShowClosesLoadingIgnores ==
    [][/\ (call'.op = "show" /\ call'.surface \in {"invisible", "error"})
            => (self'.should_close /\ call'.result = "returned")
       /\ (call'.op = "show_loading_screen")
            => (self' = self /\ call'.result = "returned")]_vars

\* show found the window not visible and the object is closing.
C5_Witness ==
    /\ call.op = "show" /\ call.surface = "invisible"
    /\ self.should_close

\* ---- C6 --------------------------------------------------------------------
\* C6: when show_camera_runtime is true and the camera frame is None or has
\* zero pixels, render returns a width x height canvas whose camera region
\* is background.
C6_RenderToleratesMissingFrame ==
    (call.op = "render" /\ self.show_camera_runtime /\ call.frame \in {"none", "empty"})
        => /\ call.result = "returned"
           /\ call.canvas = << [w |-> self.width, h |-> self.height,
                                camera |-> "background"] >>

\* ---- C7 --------------------------------------------------------------------
\* C7: construction with rows <= 0 or cols <= 0 produces no object.
C7_MalformedConfigRejected ==
    (grid_config.rows <= 0 \/ grid_config.cols <= 0) => ~ constructed

\* ---- C8 --------------------------------------------------------------------
\* C8: while should_close is false, a pointerDown at (x, y) does exactly what
\* the first of Close, ToggleCamera, ToggleGrid containing (x, y) inclusively
\* does: Close sets should_close and nothing else; ToggleCamera flips only
\* show_camera_runtime; ToggleGrid flips only show_grid_runtime; outside all
\* three nothing changes.  A pointerMove changes mouse_x and mouse_y only.
C8_PointerEffects ==
    [][/\ (call'.op = "pointerDown" /\ ~ self.should_close) =>
          \A d \in DownPoints(self) :
            PointerDown(d[1], d[2]) =>
                LET x == d[1]
                    y == d[2]
                    c == self.close_button_bounds
                    t == self.toggle_camera_button_bounds
                    g == self.toggle_grid_button_bounds
                IN IF c[1] <= x /\ x <= c[3] /\ c[2] <= y /\ y <= c[4]
                   THEN self' = [self EXCEPT !.should_close = TRUE]
                   ELSE IF t[1] <= x /\ x <= t[3] /\ t[2] <= y /\ y <= t[4]
                   THEN /\ self'.show_camera_runtime = ~ self.show_camera_runtime
                        /\ self'.show_grid_runtime = self.show_grid_runtime
                        /\ self'.should_close = self.should_close
                        /\ self'.mouse_x = self.mouse_x /\ self'.mouse_y = self.mouse_y
                   ELSE IF g[1] <= x /\ x <= g[3] /\ g[2] <= y /\ y <= g[4]
                   THEN /\ self'.show_grid_runtime = ~ self.show_grid_runtime
                        /\ self'.show_camera_runtime = self.show_camera_runtime
                        /\ self'.should_close = self.should_close
                        /\ self'.mouse_x = self.mouse_x /\ self'.mouse_y = self.mouse_y
                   ELSE self' = self
       /\ (call'.op = "pointerMove") =>
          \A p \in MovePoints(self) :
            PointerMove(p[1], p[2]) =>
                self' = [self EXCEPT !.mouse_x = <<p[1]>>, !.mouse_y = <<p[2]>>]]_vars

\* A pointerDown on ToggleGrid has hidden the grid of an open visualizer.
C8_Witness ==
    /\ call.op = "pointerDown"
    /\ ~ self.should_close
    /\ ~ self.show_grid_runtime
    /\ trail = <<"grid">>

\* ---- C9 --------------------------------------------------------------------
\* C9: all three button bounds lie inside the canvas.
C9_ButtonsInsideCanvas ==
    constructed =>
        \A b \in AllBounds(self) :
            /\ 0 <= b[1] /\ b[3] <= self.width - 1
            /\ 0 <= b[2] /\ b[4] <= self.height - 1

\* ---- C10 -------------------------------------------------------------------
\* C10: the canvas is never higher than max_height.
C10_CanvasHeightCapped ==
    constructed => self.height <= max_height

TypeOK ==
    /\ constructed \in BOOLEAN
    /\ self.should_close \in BOOLEAN
    /\ Len(trail) <= 2
====
